---- MODULE Spec2Model ----
(***************************************************************************)
(* Equihash stratum adapter (src/src/equi/equi-stratum.cpp).               *)
(*                                                                         *)
(* Byte buffers are functions over 0..n-1 (the source's indices).  C       *)
(* strings are sequences of characters; hex strings are sequences of hex   *)
(* digit values 0..15.  Wide integers (uint64_t, the quotients of the      *)
(* difficulty arithmetic) are little-endian sequences of base-256 digits,  *)
(* so that no value depends on the width of the checker's integers.  A     *)
(* double is the exact rational num/den of two such integers: the          *)
(* rounding of a quotient to 53 bits (relative error 2^-53) is below       *)
(* every margin the properties here compare against.                       *)
(***************************************************************************)
EXTENDS Integers, Sequences, FiniteSets, TLC

(***************************************************************************)
(* The conversions between difficulty and target.                          *)
(*   mpc, mdiff, mmem, mback: one evaluation of the pure conversions       *)
(*   (the difficulty given, the memory holding the target, the difficulty  *)
(*   read back).                                                           *)
(***************************************************************************)
VARIABLES mpc, mdiff, mmem, mback

mathVars == <<mpc, mdiff, mmem, mback>>

(***************************************************************************)
(* The stratum context, the network thread and a miner thread.             *)
(*   job, session, next_diff, srvtime_diff: struct stratum_ctx             *)
(*   lock: the holder of stratum_work_lock                                 *)
(*   rpc, cur, ret: the network thread: its place in a handler, the        *)
(*       message it handles, the value the handler returned                *)
(*   mnr, seen: a miner thread reading the job, and what it read           *)
(*   committed, xn2Before, staged, adopted: history (what the job was      *)
(*       when the last notify returned, the xnonce2 bytes when the notify  *)
(*       in progress reached line 199, the difficulty the last set_target  *)
(*       staged, the staged difficulty when the last notify returned)      *)
(***************************************************************************)
VARIABLES job, session, next_diff, srvtime_diff, lock, rpc, cur, ret,
          mnr, seen, committed, xn2Before, staged, adopted

protoVars == <<job, session, next_diff, srvtime_diff, lock, rpc, cur, ret,
               mnr, seen, committed, xn2Before, staged, adopted>>

(***************************************************************************)
(* Share submission: struct stratum_ctx again, and the submitting threads. *)
(*   shares_count (job.shares_count), sharediff, tv_submit                 *)
(*   sub: each submitting thread: its place in equi_stratum_submit, the    *)
(*       work it submits, the id of the line it formatted, the             *)
(*       shares_count it loaded, the value returned and why                *)
(*   wire: the lines stratum_send_line delivered, in order                 *)
(*   startShares, overlapped: history (shares_count when the session       *)
(*       began, whether two calls ever overlapped in time)                 *)
(***************************************************************************)
VARIABLES shares_count, sharediff, tv_submit, sub, wire, startShares, overlapped

submitVars == <<shares_count, sharediff, tv_submit, sub, wire, startShares, overlapped>>

(***************************************************************************)
(* The network difficulty: one evaluation of equi_network_diff.            *)
(*   npc, nbits, net_diff: the place in the call, work->data[26] as its    *)
(*   four bytes in memory, the difficulty returned                         *)
(***************************************************************************)
VARIABLES npc, nbits, net_diff

netVars == <<npc, nbits, net_diff>>

(***************************************************************************)
(* equi_stratum_show_message.                                              *)
(*   acks: the lines the handler gave to stratum_send_line, in order, each *)
(*   with the result of the send                                           *)
(***************************************************************************)
VARIABLES acks

showVars == <<acks>>

(***************************************************************************)
(* The text of a submission: one evaluation of the formatting of           *)
(* equi_stratum_submit.                                                    *)
(*   fpc, fwork, fline: the place in the call, the work given, the line    *)
(***************************************************************************)
VARIABLES fpc, fwork, fline

fmtVars == <<fpc, fwork, fline>>

vars == <<mathVars, protoVars, submitVars, netVars, showVars, fmtVars>>

Max(a, b) == IF a >= b THEN a ELSE b
Min(a, b) == IF a <= b THEN a ELSE b

\* the elements of a finite set, in some order
RECURSIVE SetToSeq(_)
SetToSeq(S) ==
    IF S = {} THEN <<>>
    ELSE LET x == CHOOSE x \in S : TRUE IN <<x>> \o SetToSeq(S \ {x})

(***************************************************************************)
(* Unbounded naturals, little-endian base 256.                             *)
(***************************************************************************)
RECURSIVE BnNorm(_)
BnNorm(a) ==
    IF a = <<>> THEN <<>>
    ELSE IF a[Len(a)] = 0 THEN BnNorm(SubSeq(a, 1, Len(a) - 1))
    ELSE a

BnDigit(a, i) == IF i >= 1 /\ i <= Len(a) THEN a[i] ELSE 0

RECURSIVE BnOfNat(_)
BnOfNat(n) == IF n = 0 THEN <<>> ELSE <<n % 256>> \o BnOfNat(n \div 256)

RECURSIVE BnCarry(_, _, _)
BnCarry(a, b, i) ==
    IF i = 0 THEN 0
    ELSE (BnDigit(a, i) + BnDigit(b, i) + BnCarry(a, b, i - 1)) \div 256

BnAdd(a, b) ==
    LET n == Max(Len(a), Len(b)) + 1
    IN  BnNorm([i \in 1..n |->
                 (BnDigit(a, i) + BnDigit(b, i) + BnCarry(a, b, i - 1)) % 256])

RECURSIVE BnBorrow(_, _, _)
BnBorrow(a, b, i) ==
    IF i = 0 THEN 0
    ELSE IF BnDigit(a, i) - BnDigit(b, i) - BnBorrow(a, b, i - 1) < 0 THEN 1 ELSE 0

\* a - b for a >= b
BnSub(a, b) ==
    BnNorm([i \in 1..Len(a) |->
             (BnDigit(a, i) - BnDigit(b, i) - BnBorrow(a, b, i - 1) + 256) % 256])

BnLt(a, b) ==
    LET x == BnNorm(a)
        y == BnNorm(b)
    IN  IF Len(x) # Len(y) THEN Len(x) < Len(y)
        ELSE \E i \in 1..Len(x) :
                /\ x[i] < y[i]
                /\ \A j \in (i + 1)..Len(x) : x[j] = y[j]

BnLe(a, b) == ~BnLt(b, a)

BnEq(a, b) == BnNorm(a) = BnNorm(b)

RECURSIVE BnMulCarry(_, _, _)
BnMulCarry(a, c, i) ==
    IF i = 0 THEN 0
    ELSE (BnDigit(a, i) * c + BnMulCarry(a, c, i - 1)) \div 256

\* a * c for a small factor c (c < 2^23 keeps every product below 2^31)
BnMulSmall(a, c) ==
    BnNorm([i \in 1..(Len(a) + 3) |->
             (BnDigit(a, i) * c + BnMulCarry(a, c, i - 1)) % 256])

\* a * 256^k
BnShlBytes(a, k) == [i \in 1..(Len(a) + k) |-> IF i <= k THEN 0 ELSE a[i - k]]

RECURSIVE BnMulFrom(_, _, _)
BnMulFrom(a, b, i) ==
    IF i > Len(b) THEN <<>>
    ELSE BnAdd(BnShlBytes(BnMulSmall(a, b[i]), i - 1), BnMulFrom(a, b, i + 1))

BnMul(a, b) == BnMulFrom(a, b, 1)

RECURSIVE BnPow2(_)
BnPow2(e) == IF e < 8 THEN BnOfNat(2 ^ e) ELSE <<0>> \o BnPow2(e - 8)

\* the largest q in 0..255 with q * b <= r, found bit by bit
RECURSIVE BnQuotDigit(_, _, _, _)
BnQuotDigit(b, r, bit, acc) ==
    IF bit = 0 THEN acc
    ELSE IF BnLe(BnMulSmall(b, acc + bit), r)
         THEN BnQuotDigit(b, r, bit \div 2, acc + bit)
         ELSE BnQuotDigit(b, r, bit \div 2, acc)

\* long division of a by b # 0, from digit i down: [q |-> quotient, r |-> remainder]
RECURSIVE BnDivFrom(_, _, _, _)
BnDivFrom(a, b, i, r) ==
    IF i = 0 THEN [q |-> <<>>, r |-> r]
    ELSE LET r1 == BnNorm(<<a[i]>> \o r)
             qd == BnQuotDigit(b, r1, 128, 0)
             rest == BnDivFrom(a, b, i - 1, BnSub(r1, BnMulSmall(b, qd)))
         IN  [q |-> rest.q \o <<qd>>, r |-> rest.r]

BnDiv(a, b) == BnNorm(BnDivFrom(a, b, Len(a), <<>>).q)

(***************************************************************************)
(* TargetMath: target_to_diff_equi, diff_to_target_equi.                   *)
(***************************************************************************)
\* 0xffff0000UL (line 43), 4294901760.0 (line 62)
DiffOneNumerator == <<0, 0, 255, 255>>

\* the double 0.
DiffZero == [num |-> <<>>, den |-> <<1>>]

\* the double n * 2^e for a small natural n
DiffOf(n, e) ==
    IF e >= 0 THEN [num |-> BnMul(BnOfNat(n), BnPow2(e)), den |-> <<1>>]
    ELSE [num |-> BnOfNat(n), den |-> BnPow2(-e)]

DiffEq(a, b) == BnEq(BnMul(a.num, b.den), BnMul(b.num, a.den))
DiffLt(a, b) == BnLt(BnMul(a.num, b.den), BnMul(b.num, a.den))
DiffPositive(d) == BnNorm(d.num) # <<>>

\* a reading of the word one byte higher, tgt[31..28]: what RoundTripBand
\* rules out
SignificantWordOfWord7(tgt) == BnNorm(<<tgt[28], tgt[29], tgt[30], tgt[31]>>)

\* lines 33-37: m = tgt[30] << 24 | tgt[29] << 16 | tgt[28] << 8 | tgt[27]
SignificantWord(tgt) == BnNorm(<<tgt[27], tgt[28], tgt[29], tgt[30]>>)

\* lines 29-44
target_to_diff_equi(target) ==
    LET m == SignificantWord(target)
    IN  IF m = <<>> THEN DiffZero
        ELSE [num |-> DiffOneNumerator, den |-> m]

\* lines 58-59: for (k = 6; k > 0 && diff > 1.0; k--) diff /= 4294967296.0
RECURSIVE ScaleDiff(_, _)
ScaleDiff(k, diff) ==
    IF k > 0 /\ BnLt(diff.den, diff.num)
    THEN ScaleDiff(k - 1, [num |-> diff.num, den |-> BnShlBytes(diff.den, 4)])
    ELSE [k |-> k, diff |-> diff]

\* line 62: the quotient 4294901760.0 / diff, before its conversion to uint64_t
TargetQuotient(diff) == BnDiv(BnMul(DiffOneNumerator, diff.den), diff.num)

\* line 62: the conversion (uint64_t) is defined for a positive diff whose
\* quotient is below 2^64
DiffToTargetDefined(diff) ==
    /\ DiffPositive(diff)
    /\ Len(TargetQuotient(ScaleDiff(6, diff).diff)) <= 8

\* byte i (0 = least significant) of the uint64_t m
U64Byte(m, i) == IF i <= 7 THEN BnDigit(m, i + 1) ELSE 0

\* stores one word lower, to k and k + 1: what TargetOfDiffOne rules out
StoreIndicesLow(k) == <<k, k + 1>>

\* lines 67-68: the word indices the two stores go to
StoreIndices(k) == <<k + 1, k + 2>>

\* lines 67-68: target[k + 1] = (uint32_t)(m >> 8); target[k + 2] = (uint32_t)(m >> 40)
\* on little-endian storage; mem is the target (bytes 0..31) followed by the
\* 4 bytes after it (32..35), where a store to word index 8 lands
StoreWords(mem, k, m) ==
    LET w1 == StoreIndices(k)[1]
        w2 == StoreIndices(k)[2]
    IN  [i \in DOMAIN mem |->
            IF i \div 4 = w2 THEN U64Byte(m, 5 + (i % 4))
            ELSE IF i \div 4 = w1 THEN U64Byte(m, 1 + (i % 4))
            ELSE mem[i]]

\* lines 70-71: for (k = 0; k < 28 && bytes[k] == 0; k++) bytes[k] = 0xff
FillLeadingZeros(mem) ==
    LET stop == CHOOSE f \in 0..28 :
                   /\ f = 28 \/ mem[f] # 0
                   /\ \A j \in 0..(f - 1) : mem[j] = 0
    IN  [i \in DOMAIN mem |-> IF i < stop THEN 255 ELSE mem[i]]

\* lines 52-73
diff_to_target_equi(mem, diff) ==
    LET s == ScaleDiff(6, diff)
        m == TargetQuotient(s.diff)
    IN  IF m = <<>> /\ s.k = 6
        THEN [i \in DOMAIN mem |-> IF i <= 31 THEN 255 ELSE mem[i]]
        ELSE FillLeadingZeros(
                StoreWords([i \in DOMAIN mem |-> IF i <= 31 THEN 0 ELSE mem[i]],
                           s.k, m))

\* the 32 bytes of the target itself
TargetOf(mem) == [i \in 0..31 |-> mem[i]]

\* difficulties 2^-ExpLo .. 2^ExpHi are given to the conversions
ExpLo == 10
ExpHi == 20

\* n * 2^e with n in {1, 3}: 0xffff0000 is divisible by both, so that the
\* double quotient of line 62 is exact and its truncation is the floor
MathDiffs == {DiffOf(n, e) : n \in {1, 3}, e \in (-ExpLo)..ExpHi}

PowersOfTwo(lo, hi) == {DiffOf(1, e) : e \in lo..hi}

\* the caller's memory before the call: a target buffer (bytes 0..31) and
\* the word that follows it (bytes 32..35)
MemBefore == {[i \in 0..35 |-> IF i <= 31 THEN b ELSE 170] : b \in {0, 85}}

MathIdle ==
    /\ mpc = "input"
    /\ mdiff = DiffOf(1, 0)
    /\ mmem = [i \in 0..35 |-> IF i <= 31 THEN 0 ELSE 170]
    /\ mback = DiffZero

MathInit ==
    /\ mpc = "input"
    /\ mdiff \in MathDiffs
    /\ mmem \in MemBefore
    /\ mback = DiffZero

\* equi_work_set_target(work, diff), lines 109-114: diff_to_target_equi on
\* work->target
MathDiffToTarget ==
    /\ mpc = "input"
    /\ DiffToTargetDefined(mdiff)
    /\ mmem' = diff_to_target_equi(mmem, mdiff)
    /\ mpc' = "target"
    /\ UNCHANGED <<mdiff, mback>>
    /\ UNCHANGED <<protoVars, submitVars, netVars, showVars, fmtVars>>

\* target_to_diff_equi on the target just written
MathTargetToDiff ==
    /\ mpc = "target"
    /\ mback' = target_to_diff_equi(TargetOf(mmem))
    /\ mpc' = "diff"
    /\ UNCHANGED <<mdiff, mmem>>
    /\ UNCHANGED <<protoVars, submitVars, netVars, showVars, fmtVars>>

\* |r - d| / d <= 2^-16, in exact arithmetic
WithinBand(r, d) ==
    LET a == BnMul(r.num, d.den)
        b == BnMul(d.num, r.den)
        gap == IF BnLt(a, b) THEN BnSub(b, a) ELSE BnSub(a, b)
    IN  BnLe(BnShlBytes(gap, 2), b)

(***************************************************************************)
(* Strings, hex decoding and the messages of the pool.                     *)
(***************************************************************************)
\* a null char* (no character of a string is negative)
NULL == <<-1>>

strlen(str) == Len(str)

\* the hex string of n bytes, each written with the digits hi, lo
HexRep(hi, lo, n) == [i \in 1..(2 * n) |-> IF i % 2 = 1 THEN hi ELSE lo]

\* hex2bin(buf + off, hexstr, len): decodes byte by byte while both the
\* string and len last; a string that ends early leaves the rest of the
\* buffer as it was, surplus characters are ignored
hex2bin(buf, off, hexstr, len) ==
    LET cnt == Min(len, strlen(hexstr) \div 2)
    IN  [i \in DOMAIN buf |->
            IF i >= off /\ i < off + cnt
            THEN 16 * hexstr[2 * (i - off) + 1] + hexstr[2 * (i - off) + 2]
            ELSE buf[i]]

\* the bytes a hex string of exactly n bytes decodes to
HexBytes(hexstr, n) == hex2bin([i \in 0..(n - 1) |-> 0], 0, hexstr, n)

\* bytes of the solution slot, line 186
SOLUTION_LEN == 1344

JobIdA == <<97, 98, 99, 100, 49, 50, 51, 52>>
JobIdB == <<100, 101, 97, 100, 98, 101, 101, 102>>

\* mining.notify params: [job_id, version, prevhash, coinb1, coinb2, ntime,
\* nbits, clean, solution]; v picks the contents
NotifyMsg(id, v) ==
    [h |-> "notify",
     job_id |-> id,
     version |-> <<0, 0, 0, 0, 0, 0, 0, 4>>,
     prevhash |-> HexRep(v, 7, 32),
     coinb1 |-> HexRep(v, 1, 32),
     coinb2 |-> HexRep(v, 2, 32),
     stime |-> IF v = 1 THEN <<5, 15, 0, 0, 0, 0, 0, 0>>
                        ELSE <<2, 0, 0, 0, 0, 0, 6, 0>>,
     nbits |-> <<1, 15, 0, 7, 15, 15, 15, v>>,
     clean |-> (v = 1),
     solution |-> HexRep(10, v, SOLUTION_LEN)]

GoodNotifyMsgs == {NotifyMsg(JobIdA, 1), NotifyMsg(JobIdA, 2), NotifyMsg(JobIdB, 3)}

\* the seven string fields line 177 requires, and the six whose length
\* lines 178-180 check
RequiredFields == {"job_id", "version", "prevhash", "coinb1", "coinb2", "nbits", "stime"}
SizedFields == RequiredFields \ {"job_id"}

\* one field absent, or one field two characters short or long
MalformedNotifyMsgs ==
    {[NotifyMsg(JobIdB, 3) EXCEPT ![f] = NULL] : f \in RequiredFields}
    \cup {[NotifyMsg(JobIdB, 3) EXCEPT ![f] = SubSeq(@, 1, Len(@) - 2)] : f \in SizedFields}
    \cup {[NotifyMsg(JobIdB, 3) EXCEPT ![f] = @ \o <<0, 0>>] : f \in SizedFields}

\* the seven fields are valid, the solution is absent or decodes to fewer
\* than SOLUTION_LEN bytes
ShortSolution == HexRep(12, 12, 2)
BadSolutionNotifyMsgs ==
    {[NotifyMsg(JobIdB, 3) EXCEPT !.solution = NULL],
     [NotifyMsg(JobIdB, 3) EXCEPT !.solution = ShortSolution]}

NotifyMsgs == GoodNotifyMsgs \cup MalformedNotifyMsgs \cup BadSolutionNotifyMsgs

\* a validation that looks for the fields and not at their lengths: what
\* MalformedChangesNothing rules out
NotifyParamsInvalidNoLength(m) == \E f \in RequiredFields : m[f] = NULL

\* lines 177-180
NotifyParamsInvalid(m) ==
    \/ \E f \in RequiredFields : m[f] = NULL
    \/ strlen(m.prevhash) # 64 \/ strlen(m.version) # 8
    \/ strlen(m.coinb1) # 64 \/ strlen(m.coinb2) # 64
    \/ strlen(m.nbits) # 8 \/ strlen(m.stime) # 8

SolutionBad(m) == m.solution = NULL \/ strlen(m.solution) \div 2 < SOLUTION_LEN

\* mining.set_target params: the big-endian target in hex, lines 16-22
TargetHex(b1, b2, b3) ==
    <<0, 0, b1 \div 16, b1 % 16, b2 \div 16, b2 % 16, b3 \div 16, b3 % 16>>
    \o HexRep(0, 0, 28)

TargetDiff32 == TargetHex(7, 255, 248)
TargetDiff4 == TargetHex(63, 255, 192)

SetTargetMsg(hex) == [h |-> "set_target", target_hex |-> hex]

\* a target whose big-endian bytes 0..4 are zero, the rest 0xff
TargetZeroWord == HexRep(0, 0, 5) \o HexRep(15, 15, 27)

GoodSetTargetMsgs ==
    {SetTargetMsg(TargetDiff32), SetTargetMsg(TargetDiff4), SetTargetMsg(TargetZeroWord)}
MalformedSetTargetMsgs == {SetTargetMsg(NULL), SetTargetMsg(<<>>)}
SetTargetMsgs == GoodSetTargetMsgs \cup MalformedSetTargetMsgs

\* further targets: the sample of difficulty 1 (line 21), targets with
\* more than 8 non-zero bytes, with a non-zero first byte, with non-zero
\* bytes from byte lo to byte hi only
TargetDiff1 == TargetHex(255, 255, 0)
TargetDense == HexRep(1, 2, 32)
TargetBand(lo, hi) ==
    [i \in 1..64 |-> IF (i - 1) \div 2 >= lo /\ (i - 1) \div 2 <= hi
                     THEN 5 + (i % 2) ELSE 0]
MoreTargets ==
    {TargetDiff1, TargetDense, HexRep(8, 0, 1) \o HexRep(0, 0, 31)}
    \cup {TargetBand(lo, lo + 9) : lo \in {0, 2, 4, 20}}
    \cup {TargetBand(3, 5)}
MoreSetTargetMsgs == {SetTargetMsg(hex) : hex \in MoreTargets}

\* line 129
SetTargetParamsInvalid(m) == m.target_hex = NULL \/ strlen(m.target_hex) = 0

\* the network thread holds the message it handles by reference: cur is
\* the message's handler and its place in Inbox, every message the pool may
\* send.  A message its handler refused leaves nothing but the handler.
Inbox == SetToSeq(NotifyMsgs \cup SetTargetMsgs \cup MoreSetTargetMsgs)
Handled(h, i) == [h |-> h, i |-> i]
Refused(h) == [h |-> h, refused |-> TRUE]
NoMsg == [h |-> "none"]
Params(c) == Inbox[c.i]
MsgIndices(h) == {i \in DOMAIN Inbox : Inbox[i].h = h}

\* the targets the pool of a mining session sends
SessionTargetIndices == {i \in DOMAIN Inbox : Inbox[i] \in SetTargetMsgs}

\* a copy that keeps the order of the bytes: what StagedDiffOfReversal
\* rules out
CopyStraight(target_be, target_bin, i, filled) == target_bin

\* lines 133-140: target_bin decoded from the hex, then copied in reverse
\* until 8 non-zero bytes have been copied
RECURSIVE CopyReversed(_, _, _, _)
CopyReversed(target_be, target_bin, i, filled) ==
    IF i = 32 \/ filled = 8 THEN target_be
    ELSE CopyReversed([target_be EXCEPT ![31 - i] = target_bin[i]], target_bin,
                      i + 1, IF target_bin[i] # 0 THEN filled + 1 ELSE filled)

TargetBe(target_hex) ==
    CopyReversed([i \in 0..31 |-> 0], HexBytes(target_hex, 32), 0, 0)

\* the int a 4-byte buffer holds on a little-endian host
IntOfBytes(b) ==
    b[0] + 256 * b[1] + 65536 * b[2]
    + 16777216 * (IF b[3] >= 128 THEN b[3] - 256 ELSE b[3])

\* values of time(0), line 190
TimeNow == {1610612700}

Zeros(n) == [i \in 0..(n - 1) |-> 0]

\* the session a subscription sets up: xnonce1 and the two sizes
Session(n1, n2) ==
    [xnonce1 |-> [i \in 0..(n1 - 1) |-> 161 + i],
     xnonce1_size |-> n1,
     xnonce2_size |-> n2]

Sessions == {Session(4, 4), Session(8, 2)}

\* the zero-initialised job of the global stratum context
JobInit ==
    [job_id |-> NULL,
     version |-> Zeros(4),
     prevhash |-> Zeros(32),
     coinbase |-> Zeros(0),
     coinbase_size |-> 0,
     xnonce2 |-> -1,
     merkle_count |-> 0,
     nbits |-> Zeros(4),
     ntime |-> Zeros(4),
     solution |-> Zeros(SOLUTION_LEN),
     clean |-> FALSE,
     diff |-> DiffZero,
     height |-> 0,
     extra |-> Zeros(32)]

\* what a reader compares: the tuple of the notify, and the solution slot
JobView(j) ==
    [job_id |-> j.job_id, prevhash |-> j.prevhash,
     coinbase_size |-> j.coinbase_size, diff |-> j.diff]

JobSnapshot(j) ==
    [job_id |-> j.job_id, prevhash |-> j.prevhash,
     coinbase_size |-> j.coinbase_size, diff |-> j.diff,
     solution |-> j.solution]

NoSnapshot == [job_id |-> NULL]

\* the xnonce2 bytes of a job whose coinbase is allocated
Xnonce2Bytes(j, n2) == [i \in 0..(n2 - 1) |-> j.coinbase[j.xnonce2 + i]]

ProtoInit ==
    /\ job = JobInit
    /\ session \in Sessions
    /\ next_diff = DiffZero
    /\ srvtime_diff = 0
    /\ lock = "free"
    /\ rpc = "idle"
    /\ cur = NoMsg
    /\ ret = FALSE
    /\ mnr = "idle"
    /\ seen = NoSnapshot
    /\ committed = JobSnapshot(JobInit)
    /\ xn2Before = Zeros(0)
    /\ staged = DiffZero
    /\ adopted = DiffZero

\* realloc(buf, size): the old bytes up to size, the rest indeterminate (-1)
realloc(buf, size) ==
    [i \in 0..(size - 1) |-> IF i \in DOMAIN buf THEN buf[i] ELSE -1]

memset(buf, off, c, n) ==
    [i \in DOMAIN buf |-> IF i >= off /\ i < off + n THEN c ELSE buf[i]]

memcpy(buf, off, src, n) ==
    [i \in DOMAIN buf |-> IF i >= off /\ i < off + n THEN src[i - off] ELSE buf[i]]

(***************************************************************************)
(* equi_stratum_set_target, lines 123-149.                                 *)
(***************************************************************************)
\* lines 128-141: a missing or empty target returns false; otherwise the
\* reversed target goes to job.extra, before the lock is taken
SetTargetBegin(i) ==
    /\ rpc = "idle"
    /\ IF SetTargetParamsInvalid(Inbox[i])
       THEN /\ rpc' = "returned"
            /\ cur' = Refused("set_target")
            /\ ret' = FALSE
            /\ job' = job
       ELSE /\ rpc' = "st_lock"
            /\ cur' = Handled("set_target", i)
            /\ ret' = ret
            /\ job' = [job EXCEPT !.extra = TargetBe(Inbox[i].target_hex)]
    /\ UNCHANGED <<session, next_diff, srvtime_diff, lock, mnr, seen,
                   committed, xn2Before, staged, adopted>>
    /\ UNCHANGED <<mathVars, submitVars, netVars, showVars, fmtVars>>

\* line 145: the value stored to next_diff
StagedDiff(target_hex) == target_to_diff_equi(TargetBe(target_hex))

\* a set_target that stores the difficulty in the job at once: what
\* SetTargetFrame rules out
SetTargetStageToJob ==
    /\ rpc = "st_lock"
    /\ lock = "free"
    /\ job' = [job EXCEPT !.diff = StagedDiff(Params(cur).target_hex)]
    /\ staged' = StagedDiff(Params(cur).target_hex)
    /\ rpc' = "returned"
    /\ ret' = TRUE
    /\ UNCHANGED <<next_diff, session, srvtime_diff, lock, cur, mnr, seen,
                   committed, xn2Before, adopted>>
    /\ UNCHANGED <<mathVars, submitVars, netVars, showVars, fmtVars>>

\* lines 144-148
SetTargetStage ==
    /\ rpc = "st_lock"
    /\ lock = "free"
    /\ next_diff' = StagedDiff(Params(cur).target_hex)
    /\ staged' = StagedDiff(Params(cur).target_hex)
    /\ rpc' = "returned"
    /\ ret' = TRUE
    /\ UNCHANGED <<job, session, srvtime_diff, lock, cur, mnr, seen,
                   committed, xn2Before, adopted>>
    /\ UNCHANGED <<mathVars, submitVars, netVars, showVars, fmtVars>>

(***************************************************************************)
(* equi_stratum_notify, lines 158-239.                                     *)
(***************************************************************************)
\* lines 189-190: ntime = the int decoded from stime, minus time(0)
ServerDrift(stime, now) == IntOfBytes(HexBytes(stime, 4)) - now

\* lines 166-195: parse and validate; invalid parameters return false (line
\* 182).  Otherwise the solution is decoded into the job's slot at once
\* (line 186: hex2bin reads through a null solution, which ends the
\* process), the time difference is kept, and the lock is taken next.
NotifyBegin(i, now) ==
    /\ rpc = "idle"
    /\ IF NotifyParamsInvalid(Inbox[i])
       THEN /\ rpc' = "returned"
            /\ cur' = Refused("notify")
            /\ ret' = FALSE
            /\ UNCHANGED <<job, srvtime_diff>>
       ELSE IF Inbox[i].solution = NULL
       THEN /\ rpc' = "crashed"
            /\ cur' = Handled("notify", i)
            /\ UNCHANGED <<job, srvtime_diff, ret>>
       ELSE /\ rpc' = "n_lock"
            /\ cur' = Handled("notify", i)
            /\ ret' = ret
            /\ job' = [job EXCEPT
                          !.solution = hex2bin(@, 0, Inbox[i].solution, SOLUTION_LEN)]
            /\ srvtime_diff' = IF ServerDrift(Inbox[i].stime, now) > srvtime_diff
                               THEN ServerDrift(Inbox[i].stime, now)
                               ELSE srvtime_diff
    /\ UNCHANGED <<session, next_diff, lock, mnr, seen,
                   committed, xn2Before, staged, adopted>>
    /\ UNCHANGED <<mathVars, submitVars, netVars, showVars, fmtVars>>

\* a notify that goes on to store without the lock: what ReaderSeesOneTuple
\* rules out
NotifyLockSkipped ==
    /\ rpc = "n_lock"
    /\ rpc' = "n_store"
    /\ UNCHANGED <<job, session, next_diff, srvtime_diff, lock, cur, ret, mnr,
                   seen, committed, xn2Before, staged, adopted>>
    /\ UNCHANGED <<mathVars, submitVars, netVars, showVars, fmtVars>>

\* line 198: pthread_mutex_lock(&stratum_work_lock)
NotifyLock ==
    /\ rpc = "n_lock"
    /\ lock = "free"
    /\ lock' = "net"
    /\ rpc' = "n_store"
    /\ UNCHANGED <<job, session, next_diff, srvtime_diff, cur, ret, mnr, seen,
                   committed, xn2Before, staged, adopted>>
    /\ UNCHANGED <<mathVars, submitVars, netVars, showVars, fmtVars>>

\* a comparison that takes every job_id for the installed one: what
\* Xnonce2ResetRule rules out
JobIdOnlyAbsent(old, new) == old = NULL

\* line 212: !sctx->job.job_id || strcmp(sctx->job.job_id, job_id)
JobIdChanged(old, new) == old = NULL \/ old # new

\* lines 202-205
CoinbaseSize(m, ses) ==
    strlen(m.coinb1) \div 2 + strlen(m.coinb2) \div 2
    + ses.xnonce1_size + ses.xnonce2_size

\* an xnonce2 view that starts where xnonce1 does: what CoinbaseLayout
\* rules out
Xnonce2OffsetAtXnonce1(m, ses) == strlen(m.coinb1) \div 2 + strlen(m.coinb2) \div 2

\* lines 211: the offset of the xnonce2 view in coinbase
Xnonce2Offset(m, ses) ==
    strlen(m.coinb1) \div 2 + strlen(m.coinb2) \div 2 + ses.xnonce1_size

\* lines 207-214: the coinbase after realloc, the two decodes, the reset of
\* xnonce2 on a job change and the copy of xnonce1
NewCoinbase(j, m, ses) ==
    LET coinb1_size == strlen(m.coinb1) \div 2
        coinb2_size == strlen(m.coinb2) \div 2
        c0 == realloc(j.coinbase, CoinbaseSize(m, ses))
        c1 == hex2bin(c0, 0, m.coinb1, coinb1_size)
        c2 == hex2bin(c1, coinb1_size, m.coinb2, coinb2_size)
        c3 == IF JobIdChanged(j.job_id, m.job_id)
              THEN memset(c2, Xnonce2Offset(m, ses), 0, ses.xnonce2_size)
              ELSE c2
    IN  memcpy(c3, coinb1_size + coinb2_size, ses.xnonce1, ses.xnonce1_size)

\* lines 199-214
NotifyStoreCoinbase ==
    /\ rpc = "n_store"
    /\ job' = [job EXCEPT
                  !.version = hex2bin(@, 0, Params(cur).version, 4),
                  !.prevhash = hex2bin(@, 0, Params(cur).prevhash, 32),
                  !.coinbase_size = CoinbaseSize(Params(cur), session),
                  !.coinbase = NewCoinbase(job, Params(cur), session),
                  !.xnonce2 = Xnonce2Offset(Params(cur), session)]
    /\ xn2Before' = [i \in 0..(session.xnonce2_size - 1) |->
                       realloc(job.coinbase, CoinbaseSize(Params(cur), session))
                           [Xnonce2Offset(Params(cur), session) + i]]
    /\ rpc' = "n_jobid"
    /\ UNCHANGED <<session, next_diff, srvtime_diff, lock, cur, ret, mnr, seen,
                   committed, staged, adopted>>
    /\ UNCHANGED <<mathVars, submitVars, netVars, showVars, fmtVars>>

\* lines 217-224
NotifyStoreJobId ==
    /\ rpc = "n_jobid"
    /\ job' = [job EXCEPT !.merkle_count = 0, !.job_id = Params(cur).job_id]
    /\ rpc' = "n_diff"
    /\ UNCHANGED <<session, next_diff, srvtime_diff, lock, cur, ret, mnr, seen,
                   committed, xn2Before, staged, adopted>>
    /\ UNCHANGED <<mathVars, submitVars, netVars, showVars, fmtVars>>

\* a notify that leaves job.diff alone: what DiffIsStagedAtNotify rules out
AdoptDiffKept(j, nd) == j

\* line 232: sctx->job.diff = sctx->next_diff
AdoptDiff(j, nd) == [j EXCEPT !.diff = nd]

\* lines 227-238
NotifyAdoptDiff ==
    /\ rpc = "n_diff"
    /\ job' = AdoptDiff([job EXCEPT
                            !.nbits = hex2bin(@, 0, Params(cur).nbits, 4),
                            !.ntime = hex2bin(@, 0, Params(cur).stime, 4),
                            !.clean = Params(cur).clean],
                        next_diff)
    /\ lock' = "free"
    /\ rpc' = "returned"
    /\ ret' = TRUE
    /\ committed' = JobSnapshot(job')
    /\ adopted' = staged
    /\ UNCHANGED <<session, next_diff, srvtime_diff, cur, mnr, seen,
                   xn2Before, staged>>
    /\ UNCHANGED <<mathVars, submitVars, netVars, showVars, fmtVars>>

\* the handler has returned to the network thread's loop, which reads the
\* next message
HandlerReturn ==
    /\ rpc = "returned"
    /\ rpc' = "idle"
    /\ cur' = NoMsg
    /\ xn2Before' = Zeros(0)
    /\ UNCHANGED <<job, session, next_diff, srvtime_diff, lock, ret, mnr, seen,
                   committed, staged, adopted>>
    /\ UNCHANGED <<mathVars, submitVars, netVars, showVars, fmtVars>>

(***************************************************************************)
(* A miner thread: it reads the job, and advances xnonce2, under the lock, *)
(* for as long as the process runs.                                        *)
(***************************************************************************)
\* xnonce2 values a miner counts up to
MaxXnonce2 == 1

MinerLockRead ==
    /\ rpc # "crashed"
    /\ mnr = "idle"
    /\ lock = "free"
    /\ lock' = "miner"
    /\ seen' = JobSnapshot(job)
    /\ mnr' = "read"
    /\ UNCHANGED <<job, session, next_diff, srvtime_diff, rpc, cur, ret,
                   committed, xn2Before, staged, adopted>>
    /\ UNCHANGED <<mathVars, submitVars, netVars, showVars, fmtVars>>

\* for (i = 0; i < xnonce2_size && !++xnonce2[i]; i++);
IncrementBytes(b, n) ==
    LET stop == CHOOSE f \in 0..n :
                   /\ f = n \/ b[f] # 255
                   /\ \A i \in 0..(f - 1) : b[i] = 255
    IN  [i \in 0..(n - 1) |-> IF i < stop THEN 0
                              ELSE IF i = stop THEN b[i] + 1 ELSE b[i]]

MinerBumpUnlock ==
    /\ rpc # "crashed"
    /\ mnr = "read"
    /\ job.xnonce2 >= 0
    /\ job.coinbase[job.xnonce2] < MaxXnonce2
    /\ job' = [job EXCEPT !.coinbase =
                 memcpy(@, job.xnonce2,
                        IncrementBytes(Xnonce2Bytes(job, session.xnonce2_size),
                                       session.xnonce2_size),
                        session.xnonce2_size)]
    /\ lock' = "free"
    /\ seen' = NoSnapshot
    /\ mnr' = "idle"
    /\ UNCHANGED <<session, next_diff, srvtime_diff, rpc, cur, ret,
                   committed, xn2Before, staged, adopted>>
    /\ UNCHANGED <<mathVars, submitVars, netVars, showVars, fmtVars>>

MinerUnlock ==
    /\ rpc # "crashed"
    /\ mnr = "read"
    /\ lock' = "free"
    /\ seen' = NoSnapshot
    /\ mnr' = "idle"
    /\ UNCHANGED <<job, session, next_diff, srvtime_diff, rpc, cur, ret,
                   committed, xn2Before, staged, adopted>>
    /\ UNCHANGED <<mathVars, submitVars, netVars, showVars, fmtVars>>

(***************************************************************************)
(* equi_stratum_show_message, lines 249-282.                               *)
(***************************************************************************)
\* lines the handler sends before the session ends
MaxAcks == 2

\* the id of the request: no id (a null json_t*), the JSON null, a number
NoId == [t |-> "absent"]
NullId == [t |-> "null"]
IntId(n) == [t |-> "int", v |-> n]
ShowIds == {NoId, NullId, IntId(1), IntId(7)}

\* params[0]: absent, not a string, or a string given by its words
NoData == [t |-> "absent"]
NonStringData == [t |-> "nonstring"]
StringData(words) == [t |-> "string", words |-> words]
ShowData ==
    {NoData, NonStringData, StringData(<<>>),
     StringData(<<"equihash", "BTG", "block", "42">>),
     StringData(<<"equihash", "ZEC", "block", "7">>),
     StringData(<<"equihash", "ZEC", "block", "0">>),
     StringData(<<"equihash", "BTG", "height", "42">>),
     StringData(<<"equihash", "BTG", "block", "x">>),
     StringData(<<"equihash">>),
     StringData(<<"hello", "BTG", "block", "42">>)}

\* the unsigned a word begins with, -1 if it begins with none
UintOf(word) ==
    IF word = "42" THEN 42 ELSE IF word = "7" THEN 7 ELSE IF word = "0" THEN 0 ELSE -1

\* line 262: sscanf(data, "equihash %s block %u", symbol, &height): the
\* number of conversions made (EOF = -1 when the input ends before the
\* first) and the height stored, 0 (its initial value) if none was
Sscanf(words) ==
    IF Len(words) = 0 \/ words[1] # "equihash" THEN [ss |-> 0, height |-> 0]
    ELSE IF Len(words) = 1 THEN [ss |-> -1, height |-> 0]
    ELSE IF Len(words) < 4 \/ words[3] # "block" \/ UintOf(words[4]) = -1
    THEN [ss |-> 1, height |-> 0]
    ELSE [ss |-> 2, height |-> UintOf(words[4])]

\* lines 256-266: the height kept in the job
HeightAfter(height, data) ==
    IF data.t = "string" /\ Len(data.words) > 0
       /\ Sscanf(data.words).height # 0 /\ Sscanf(data.words).ss > 1
    THEN Sscanf(data.words).height
    ELSE height

\* a test that takes the JSON null for an id: what AckOnlyForId rules out
IdMissingIfAbsent(id) == id = NoId

\* line 269: !id || json_is_null(id)
IdMissing(id) == id = NoId \/ id = NullId

\* lines 272-276: {"id": id, "error": null, "result": true}
AckLine(id) == [id |-> id, error |-> "null", result |-> TRUE]

ShowIdle == acks = <<>>

\* lines 249-282; ok is the result of stratum_send_line
ShowMessage(data, id, ok) ==
    /\ rpc = "idle"
    /\ Len(acks) < MaxAcks
    /\ job' = [job EXCEPT !.height = HeightAfter(@, data)]
    /\ IF IdMissing(id)
       THEN /\ acks' = acks
            /\ ret' = TRUE
       ELSE /\ acks' = Append(acks, [line |-> AckLine(id), delivered |-> ok])
            /\ ret' = ok
    /\ rpc' = "returned"
    /\ cur' = [h |-> "show_message", id |-> id]
    /\ UNCHANGED <<session, next_diff, srvtime_diff, lock, mnr, seen,
                   committed, xn2Before, staged, adopted>>
    /\ UNCHANGED <<mathVars, submitVars, netVars, fmtVars>>

(***************************************************************************)
(* equi_stratum_submit, lines 308-359.                                     *)
(***************************************************************************)
Submitters == {"t1", "t2"}

\* lines delivered before the threads stop submitting
MaxWire == 2

\* shares_count when the session begins
StartShares == {0, 3}

\* index into work->data of the word that receives the nonce (equihash.h)
EQNONCE_OFFSET == 27

\* the prefix of work->job_id that line 333 skips ("%07x %s" of the ntime)
JobIdPrefix == <<53, 102, 48, 48, 48, 48, 48, 32>>

\* the works handed in: w picks the contents.  data25 and nonce_word are
\* uint32_t as they lie in memory, nonce_area the 32 bytes at &data[27]
Work(w) ==
    [job_id |-> JobIdPrefix \o (IF w = 1 THEN JobIdA ELSE JobIdB),
     data25 |-> [i \in 0..3 |-> IF w = 1 THEN 120 - 34 * i ELSE 16 * i + w],
     nonce_area |-> [i \in 0..31 |-> i],
     nonces |-> [n \in 0..0 |-> [i \in 0..3 |-> (192 + 16 * w + i) % 256]],
     submit_nonce_id |-> 0,
     extra |-> [i \in 0..1346 |-> IF w = 1 THEN 204 ELSE (i % (5 + w)) + 14 + w],
     solution |-> [i \in 0..(SOLUTION_LEN - 1) |->
                     IF w = 1 THEN (IF i >= 8 /\ i < 72 THEN 238 ELSE 17)
                     ELSE (i + w - 2) % 251],
     sharediff |-> [n \in 0..0 |-> 4 + w]]

WorkIds == {1, 2}

\* pool->user
PoolUser == <<119, 49>>

\* bin2hex / cbin2hex of len bytes of buf from off: two lowercase digits a
\* byte, high digit first
bin2hex(buf, off, len) ==
    [i \in 1..(2 * len) |->
        IF i % 2 = 1 THEN buf[off + (i - 1) \div 2] \div 16
        ELSE buf[off + (i - 1) \div 2] % 16]

\* swab32 of a uint32_t given by its bytes in memory
swab32(b) == [i \in 0..3 |-> b[3 - i]]

\* sprintf("%08x", v): most significant byte first
Hex08(b) == bin2hex([i \in 0..3 |-> b[3 - i]], 0, 4)

\* lines 316-319: the nonce word stored, then the nonce past xnonce1
NonceStr(wk, ses) ==
    LET word == EQNONCE_OFFSET - 27
        nonce == [i \in 0..31 |->
                    IF i \div 4 = word
                    THEN wk.nonces[wk.submit_nonce_id][i % 4]
                    ELSE wk.nonce_area[i]]
    IN  bin2hex(nonce, ses.xnonce1_size, 32 - ses.xnonce1_size)

\* a solution string without the copy of line 331: what SolutionStringLayout
\* rules out
SolHexOfExtra(wk) == bin2hex(wk.extra, 0, 1347)

\* lines 322-331: the hex of work->extra with the hex of solution[8..72)
\* copied over it at offset 6 + 16
SolHex(wk) ==
    LET solhex == bin2hex(wk.extra, 0, 1347)
        solHexRestore == bin2hex(wk.solution, 8, 64)
    IN  [i \in 1..Len(solhex) |->
            IF i - 1 >= 6 + 16 /\ i - 1 < 6 + 16 + 128
            THEN solHexRestore[i - (6 + 16)]
            ELSE solhex[i]]

\* line 340: the id of the line
SubmitId(count) == count + 10

\* lines 333-340
FormatLine(wk, ses, id) ==
    [method |-> "mining.submit",
     user |-> PoolUser,
     jobid |-> SubSeq(wk.job_id, 9, Len(wk.job_id)),
     timehex |-> Hex08(swab32(wk.data25)),
     noncestr |-> NonceStr(wk, ses),
     solhex |-> SolHex(wk),
     id |-> id]

\* the line thread t formatted: its text is a function of the work, the
\* session and the id, of which the thread keeps the id
SubmitLine(t) == FormatLine(Work(sub[t].work), session, sub[t].id)

SubIdle ==
    [pc |-> "idle", work |-> 0, id |-> 0, loaded |-> 0,
     ret |-> "none", cause |-> "none", tried |-> FALSE, wrote |-> FALSE]

SubmitIdle ==
    /\ shares_count = 0
    /\ sharediff = 0
    /\ tv_submit = 0
    /\ sub = [t \in Submitters |-> SubIdle]
    /\ wire = <<>>
    /\ startShares = 0
    /\ overlapped = FALSE

SubmitInit ==
    /\ shares_count \in StartShares
    /\ sharediff = 0
    /\ tv_submit = 0
    /\ sub = [t \in Submitters |-> SubIdle]
    /\ wire = <<>>
    /\ startShares = shares_count
    /\ overlapped = FALSE

\* the allocation that fails in a call: none, noncestr or solhex (lines 319,
\* 322), or solHexRestore (line 329)
AllocFailures == {"none", "solhex", "restore"}

\* the process runs until a thread writes through a null pointer
Running == \A t \in Submitters : sub[t].pc # "crashed"

\* lines 313-344: a failed allocation of noncestr or solhex returns false
\* (line 325); solHexRestore is not looked at, and cbin2hex writes through
\* it when it is null (line 330), which ends the process; otherwise the
\* line is formatted with the shares_count read at line 340
SubmitFormat(t, w, failed) ==
    /\ Running
    /\ sub[t].pc = "idle"
    /\ Len(wire) < MaxWire
    /\ overlapped' = (overlapped \/ \E o \in Submitters \ {t} : sub[o].pc # "idle")
    /\ sub' = [sub EXCEPT ![t] =
                 IF failed = "solhex"
                 THEN [pc |-> "idle", work |-> w, id |-> 0,
                       loaded |-> 0, ret |-> "false", cause |-> "alloc",
                       tried |-> FALSE, wrote |-> FALSE]
                 ELSE IF failed = "restore"
                 THEN [pc |-> "crashed", work |-> w, id |-> 0,
                       loaded |-> 0, ret |-> "none", cause |-> "alloc",
                       tried |-> FALSE, wrote |-> FALSE]
                 ELSE [pc |-> "send", work |-> w,
                       id |-> SubmitId(shares_count), loaded |-> 0,
                       ret |-> "none", cause |-> "none",
                       tried |-> FALSE, wrote |-> FALSE]]
    /\ UNCHANGED <<shares_count, sharediff, tv_submit, wire, startShares>>
    /\ UNCHANGED <<mathVars, protoVars, netVars, showVars, fmtVars>>

\* lines 347-352: the time of the submit is kept, the line is sent; a failed
\* send returns false
SubmitSend(t, now, ok) ==
    /\ Running
    /\ sub[t].pc = "send"
    /\ tv_submit' = now
    /\ IF ok
       THEN /\ wire' = Append(wire, [by |-> t, id |-> sub[t].id])
            /\ sub' = [sub EXCEPT ![t].pc = "count", ![t].tried = TRUE]
       ELSE /\ wire' = wire
            /\ sub' = [sub EXCEPT ![t].pc = "idle", ![t].tried = TRUE,
                                  ![t].ret = "false", ![t].cause = "send"]
    /\ UNCHANGED <<shares_count, sharediff, startShares, overlapped>>
    /\ UNCHANGED <<mathVars, protoVars, netVars, showVars, fmtVars>>

\* line 355, and the load of stratum.job.shares_count++ (line 356)
SubmitShareDiff(t) ==
    /\ Running
    /\ sub[t].pc = "count"
    /\ sharediff' = Work(sub[t].work).sharediff[Work(sub[t].work).submit_nonce_id]
    /\ sub' = [sub EXCEPT ![t].pc = "store", ![t].loaded = shares_count,
                          ![t].wrote = TRUE]
    /\ UNCHANGED <<shares_count, tv_submit, wire, startShares, overlapped>>
    /\ UNCHANGED <<mathVars, protoVars, netVars, showVars, fmtVars>>

\* a store that puts back the value loaded: what SubmitIdsIncrease rules out
NextSharesCountSame(loaded) == loaded

\* line 356: the value stored by stratum.job.shares_count++
NextSharesCount(loaded) == loaded + 1

\* the store of line 356, and line 358
SubmitStoreCount(t) ==
    /\ Running
    /\ sub[t].pc = "store"
    /\ shares_count' = NextSharesCount(sub[t].loaded)
    /\ sub' = [sub EXCEPT ![t].pc = "idle", ![t].ret = "true"]
    /\ UNCHANGED <<sharediff, tv_submit, wire, startShares, overlapped>>
    /\ UNCHANGED <<mathVars, protoVars, netVars, showVars, fmtVars>>

(***************************************************************************)
(* equi_network_diff, lines 81-101.                                        *)
(***************************************************************************)
\* the exponent bytes and the mantissas (b0, b1, b2 as they lie in memory)
\* of the nbits given
ExponentBytes == 3..31
Mantissas == {<<255, 255, 0>>, <<255, 255, 7>>, <<1, 2, 3>>, <<0, 0, 128>>}

\* work->data[26] on a little-endian host: the bytes of the uint32_t
Nbits(mant, e) == [i \in 0..3 |-> IF i = 3 THEN e ELSE mant[i + 1]]

\* line 87: nbits & 0xffffff
MantissaOf(nb) == [i \in 0..3 |-> IF i = 3 THEN 0 ELSE nb[i]]

\* lines 88-89: shift = (31 - (swab32(nbits) & 0xff)) * 8
ShiftOf(nb) == (31 - swab32(nb)[0]) * 8

\* v << shift for a uint32_t v widened to width bytes, shift a multiple
\* of 8 in 0 .. 8 * width - 1 or beyond: the bytes that leave the width
\* are dropped
ShiftLeft(v, shift, width) ==
    [b \in 0..(width - 1) |->
        IF b - shift \div 8 >= 0 /\ b - shift \div 8 <= 3
        THEN v[b - shift \div 8] ELSE 0]

\* line 91: tgt64 << shift.  A count of 64 or more is undefined: a build
\* that shifts in a library routine or by a register-length count yields 0
\* ("zero"), a build that uses the 64-bit shift instruction uses the count
\* modulo 64 ("masked")
ShiftOutcomes == {"zero", "masked"}
Shl64(v, shift, outcome) ==
    IF shift < 64 \/ outcome = "zero" THEN ShiftLeft(v, shift, 8)
    ELSE ShiftLeft(v, shift % 64, 8)

\* lines 94-96: net_target[31 - b] = byte b of tgt64
NetTarget(tgt64) == [i \in 0..31 |-> IF i >= 24 THEN tgt64[31 - i] ELSE 0]

\* lines 81-101
equi_network_diff(nb, outcome) ==
    target_to_diff_equi(
        NetTarget(Shl64(swab32(MantissaOf(nb)), ShiftOf(nb), outcome)))

NetIdle ==
    /\ npc = "input"
    /\ nbits = Nbits(<<255, 255, 0>>, 31)
    /\ net_diff = DiffZero

NetInit ==
    /\ npc = "input"
    /\ nbits \in {Nbits(mant, e) : mant \in Mantissas, e \in ExponentBytes}
    /\ net_diff = DiffZero

NetworkDiff(outcome) ==
    /\ npc = "input"
    /\ net_diff' = equi_network_diff(nbits, outcome)
    /\ npc' = "done"
    /\ UNCHANGED nbits
    /\ UNCHANGED <<mathVars, protoVars, submitVars, showVars, fmtVars>>

(***************************************************************************)
(* The text equi_stratum_submit formats, lines 313-340.                    *)
(***************************************************************************)
\* the works whose text is formatted
FormatWorks == 1..30

NoLine == [method |-> "none"]

FmtIdle ==
    /\ fpc = "input"
    /\ fwork = 1
    /\ fline = NoLine

FmtInit ==
    /\ fpc = "input"
    /\ fwork \in FormatWorks
    /\ fline = NoLine

FormatSubmission ==
    /\ fpc = "input"
    /\ fline' = FormatLine(Work(fwork), session, SubmitId(shares_count))
    /\ fpc' = "done"
    /\ UNCHANGED fwork
    /\ UNCHANGED <<mathVars, protoVars, submitVars, netVars, showVars>>

(***************************************************************************)
(* Specifications.                                                         *)
(***************************************************************************)
Init == MathIdle /\ ProtoInit /\ SubmitIdle /\ NetIdle /\ ShowIdle /\ FmtIdle

Next ==
    \/ \E i \in SessionTargetIndices : SetTargetBegin(i)
    \/ SetTargetStage
    \/ \E i \in MsgIndices("notify"), now \in TimeNow : NotifyBegin(i, now)
    \/ NotifyLock
    \/ NotifyStoreCoinbase
    \/ NotifyStoreJobId
    \/ NotifyAdoptDiff
    \/ HandlerReturn
    \/ MinerLockRead
    \/ MinerBumpUnlock
    \/ MinerUnlock

\* the network thread's handlers and a miner thread
Spec == Init /\ [][Next]_vars

SubmitSpecInit == MathIdle /\ ProtoInit /\ SubmitInit /\ NetIdle /\ ShowIdle /\ FmtIdle

SubmitNext ==
    \/ \E t \in Submitters, w \in WorkIds, failed \in AllocFailures :
          SubmitFormat(t, w, failed)
    \/ \E t \in Submitters, now \in TimeNow, ok \in BOOLEAN : SubmitSend(t, now, ok)
    \/ \E t \in Submitters : SubmitShareDiff(t)
    \/ \E t \in Submitters : SubmitStoreCount(t)

\* the threads that submit shares
SubmitSpec == SubmitSpecInit /\ [][SubmitNext]_vars

MathSpecInit == MathInit /\ ProtoInit /\ SubmitIdle /\ NetIdle /\ ShowIdle /\ FmtIdle

MathNext ==
    \/ MathDiffToTarget
    \/ MathTargetToDiff

\* the conversions between difficulty and target
MathSpec == MathSpecInit /\ [][MathNext]_vars

TargetNext ==
    \/ \E i \in MsgIndices("set_target") : SetTargetBegin(i)
    \/ SetTargetStage
    \/ HandlerReturn

\* the network thread handling mining.set_target
TargetSpec == Init /\ [][TargetNext]_vars

ShowNext ==
    \/ \E data \in ShowData, id \in ShowIds, ok \in BOOLEAN : ShowMessage(data, id, ok)
    \/ HandlerReturn

\* the network thread handling client.show_message
ShowSpec == Init /\ [][ShowNext]_vars

FmtSpecInit == MathIdle /\ ProtoInit /\ SubmitIdle /\ NetIdle /\ ShowIdle /\ FmtInit

FmtNext == FormatSubmission

\* the text of a submission
FmtSpec == FmtSpecInit /\ [][FmtNext]_vars

NetSpecInit == MathIdle /\ ProtoInit /\ SubmitIdle /\ NetInit /\ ShowIdle /\ FmtIdle

NetNext == \E outcome \in ShiftOutcomes : NetworkDiff(outcome)

\* the network difficulty of a work
NetSpec == NetSpecInit /\ [][NetNext]_vars

(***************************************************************************)
(* Properties.                                                             *)
(***************************************************************************)
\* the places in Inbox of the messages of each kind
MalformedNotifyIndices == {i \in DOMAIN Inbox : Inbox[i] \in MalformedNotifyMsgs}
MalformedSetTargetIndices == {i \in DOMAIN Inbox : Inbox[i] \in MalformedSetTargetMsgs}
BadSolutionIndices ==
    {i \in MsgIndices("notify") :
        ~NotifyParamsInvalid(Inbox[i]) /\ SolutionBad(Inbox[i])}

\* C1: job.diff is always the difficulty that the most recent set_target
\* had staged when the last successful notify returned (the initial
\* next_diff if there was none); a set_target that comes after the notify
\* stages a new value and leaves job.diff alone.
DiffIsStagedAtNotify == job.diff = adopted

\* C1: a notify adopted a staged difficulty, and a later set_target has
\* staged another one
DiffIsStagedAtNotifyWitness ==
    /\ job.job_id # NULL
    /\ DiffPositive(adopted)
    /\ job.diff = adopted
    /\ DiffPositive(staged)
    /\ staged # adopted
    /\ next_diff = staged

\* C2: what a reader holding the lock sees of (job_id, prevhash,
\* coinbase_size, diff) is the tuple as the last notify to return left it:
\* the tuple from before the notify in progress, or the one after it, and
\* never a mixture.
ReaderSeesOneTuple == mnr = "read" => JobView(seen) = JobView(committed)

\* C2: a reader reads an installed job under the lock while a notify for
\* another job_id is under way
ReaderSeesOneTupleWitness ==
    /\ mnr = "read"
    /\ rpc = "n_lock"
    /\ seen.job_id # NULL
    /\ Params(cur).job_id # seen.job_id

\* C3: a reader holding the lock who sees an installed job sees the whole
\* of it, the solution slot included, as the last notify to return left it:
\* never the solution of one notify with the job_id, prevhash or diff of
\* another.
ReaderSeesWholeJob == (mnr = "read" /\ seen.job_id # NULL) => seen = committed

\* C4: when a notify has stored the coinbase (job.job_id is still the
\* installed one), the xnonce2 region is all zero if the job_id of the
\* message differs from the installed one or none was installed, and holds
\* the bytes it held when the notify began otherwise.
Xnonce2ResetRule ==
    rpc = "n_jobid" =>
        IF job.job_id = NULL \/ job.job_id # Params(cur).job_id
        THEN Xnonce2Bytes(job, session.xnonce2_size) = Zeros(session.xnonce2_size)
        ELSE Xnonce2Bytes(job, session.xnonce2_size) = xn2Before

\* C4: a second notify with the installed job_id keeps the non-zero bytes
\* a miner wrote
Xnonce2ResetRuleWitness ==
    /\ rpc = "n_jobid"
    /\ job.job_id = Params(cur).job_id
    /\ xn2Before = Xnonce2Bytes(job, session.xnonce2_size)
    /\ xn2Before[0] > 0

\* C5: while no two calls of equi_stratum_submit have overlapped, the ids
\* of the lines delivered are strictly increasing and the first is
\* shares_count at the start of the session plus 10.
SubmitIdsIncrease ==
    ~overlapped =>
        /\ \A i \in 1..(Len(wire) - 1) : wire[i].id < wire[i + 1].id
        /\ Len(wire) > 0 => wire[1].id = startShares + 10

\* C5: two lines delivered by calls that did not overlap, one call having
\* failed at the send
SubmitIdsIncreaseWitness ==
    /\ ~overlapped
    /\ Len(wire) >= 2
    /\ \E t \in Submitters : sub[t].ret = "false" /\ sub[t].cause = "send"

\* C6: a call of equi_stratum_submit in which an allocation fails, or
\* whose send fails, returns false and leaves shares_count and sharediff as
\* they were; when an allocation fails no line is sent.
SubmitFailureFrame ==
    [][\A t \in Submitters :
          /\ (\E w \in WorkIds, failed \in AllocFailures \ {"none"} :
                  SubmitFormat(t, w, failed)) =>
                /\ sub'[t].pc = "idle" /\ sub'[t].ret = "false"
                /\ shares_count' = shares_count /\ sharediff' = sharediff
                /\ wire' = wire
          /\ (\E now \in TimeNow : SubmitSend(t, now, FALSE)) =>
                /\ sub'[t].pc = "idle" /\ sub'[t].ret = "false"
                /\ shares_count' = shares_count /\ sharediff' = sharediff
                /\ wire' = wire]_vars

\* C7: a notify with one of job_id, version, prevhash, coinb1, coinb2,
\* ntime, nbits missing or of the wrong length, and a set_target with a
\* missing or empty target, return false and leave the job, next_diff and
\* srvtime_diff as they were.
MalformedChangesNothing ==
    [][(rpc = "idle" /\ rpc' # "idle") =>
          \A i \in MalformedNotifyIndices \cup MalformedSetTargetIndices :
              (\/ i \in MalformedNotifyIndices
                     /\ \E now \in TimeNow : NotifyBegin(i, now)
               \/ i \in MalformedSetTargetIndices /\ SetTargetBegin(i))
              => /\ rpc' = "returned" /\ ret' = FALSE
                 /\ job' = job
                 /\ next_diff' = next_diff
                 /\ srvtime_diff' = srvtime_diff]_vars

\* C7: a malformed notify was refused while a job is installed and a
\* difficulty is staged
MalformedChangesNothingWitness ==
    /\ rpc = "returned"
    /\ cur = Refused("notify")
    /\ ret = FALSE
    /\ job.job_id # NULL
    /\ DiffPositive(next_diff)

\* C8: a notify whose seven fields are valid and whose solution is absent
\* or decodes to fewer than SOLUTION_LEN bytes returns false and leaves
\* the job, the solution slot included, as it was.
BadSolutionFailsMessage ==
    [][(rpc = "idle" /\ rpc' # "idle") =>
          \A i \in BadSolutionIndices :
              (\E now \in TimeNow : NotifyBegin(i, now))
              => /\ rpc' = "returned" /\ ret' = FALSE
                 /\ job' = job]_vars

\* C9: for every power of two d = 2^j with 0 <= j <= 16, the difficulty
\* read back from the target of d differs from d by at most d * 2^-16.
RoundTripBand ==
    (mpc = "diff" /\ mdiff \in PowersOfTwo(0, 16)) => WithinBand(mback, mdiff)

\* C9: 2^8 was read back within the band and not exactly (byte 27 of its
\* target is 0xff)
RoundTripBandWitness ==
    /\ mpc = "diff"
    /\ mdiff = DiffOf(1, 8)
    /\ ~DiffEq(mback, mdiff)
    /\ WithinBand(mback, mdiff)

\* C9: for every power of two d in 2^-10 .. 2^20, the difficulty read back
\* from the target of d differs from d by at most d * 2^-16.
RoundTripBandWholeRange ==
    (mpc = "diff" /\ mdiff \in PowersOfTwo(-10, 20)) => WithinBand(mback, mdiff)

\* C10: the target of difficulty 1 holds 0xff at index 27 and the word
\* 0x00ffff00 at indices 28..31: the bytes 27..31 are ff, 00, ff, ff, 00.
TargetOfDiffOne ==
    (mpc = "target" /\ DiffEq(mdiff, DiffOf(1, 0)))
        => <<mmem[27], mmem[28], mmem[29], mmem[30], mmem[31]>> = <<255, 0, 255, 255, 0>>

\* C10: the target of difficulty 1 was written over a buffer that was not
\* zero
TargetOfDiffOneWitness ==
    /\ mpc = "target"
    /\ DiffEq(mdiff, DiffOf(1, 0))
    /\ mmem[28] = 0 /\ mmem[29] = 255 /\ mmem[30] = 255
    /\ \E m \in MemBefore : m[28] # 0 /\ mmem = diff_to_target_equi(m, mdiff)

\* C10: the bytes 27..30 of the target of difficulty 1 are ff, ff, 00, 00.
TargetOfDiffOneAsStated ==
    (mpc = "target" /\ DiffEq(mdiff, DiffOf(1, 0)))
        => <<mmem[27], mmem[28], mmem[29], mmem[30]>> = <<255, 255, 0, 0>>

\* the 256-bit expansion of nbits: the mantissa shifted by (31 - e) * 8
\* bits with no bit dropped, laid in storage order
Expand(nb) ==
    LET full == ShiftLeft(swab32(MantissaOf(nb)), ShiftOf(nb), 32)
    IN  [i \in 0..31 |-> full[31 - i]]

\* C11: for every nbits with an exponent byte in 3..31, equi_network_diff
\* returns the difficulty that target_to_diff_equi gives for the 256-bit
\* expansion of nbits.
NetworkDiffIsOfExpansion ==
    (npc = "done" /\ nbits[3] \in ExponentBytes)
        => DiffEq(net_diff, target_to_diff_equi(Expand(nbits)))

\* the byte-reversal of the whole decoded target
FullReversal(target_bin) == [i \in 0..31 |-> target_bin[31 - i]]

\* C12: when set_target has staged a difficulty for a target of 64 hex
\* characters, next_diff is the difficulty of the complete byte-reversal
\* of the target; the sample targets of lines 19-21 stage 32, 4 and 1.
StagedDiffOfReversal ==
    (rpc = "returned" /\ cur.h = "set_target" /\ ret) =>
        /\ DiffEq(next_diff,
                  target_to_diff_equi(FullReversal(HexBytes(Params(cur).target_hex, 32))))
        /\ Params(cur).target_hex = TargetDiff32 => DiffEq(next_diff, DiffOf(32, 0))
        /\ Params(cur).target_hex = TargetDiff4 => DiffEq(next_diff, DiffOf(4, 0))
        /\ Params(cur).target_hex = TargetDiff1 => DiffEq(next_diff, DiffOf(1, 0))

\* C12: a target with more than 8 non-zero bytes was staged: the copy
\* stopped, job.extra is not the whole reversal, and the difficulty is that
\* of the whole reversal
StagedDiffOfReversalWitness ==
    /\ rpc = "returned" /\ cur.h = "set_target" /\ ret
    /\ Params(cur).target_hex = TargetDense
    /\ job.extra # FullReversal(HexBytes(TargetDense, 32))
    /\ DiffPositive(next_diff)

\* C13: show_message gives stratum_send_line one line, {id, error: null,
\* result: true}, exactly when the id is present and not null, and then
\* returns the result of the send; with no id or a null id it sends
\* nothing and returns true.
AckOnlyForId ==
    [][\A data \in ShowData, id \in ShowIds, ok \in BOOLEAN :
          ShowMessage(data, id, ok) =>
             IF id = NoId \/ id = NullId
             THEN acks' = acks /\ ret' = TRUE
             ELSE /\ acks' = Append(acks, [line |-> [id |-> id, error |-> "null",
                                                      result |-> TRUE],
                                           delivered |-> ok])
                  /\ ret' = ok]_vars

\* C13: a message with a null id was handled after one whose
\* acknowledgement could not be sent
AckOnlyForIdWitness ==
    /\ rpc = "returned" /\ cur = [h |-> "show_message", id |-> NullId]
    /\ ret = TRUE
    /\ Len(acks) = 1 /\ ~acks[1].delivered
    /\ job.height = 42

\* C14: the thread that writes sharediff (line 355) or shares_count (line
\* 356) in equi_stratum_submit holds stratum_work_lock while it writes.
SubmitWritesUnderLock ==
    [][\A t \in Submitters :
          (SubmitShareDiff(t) \/ SubmitStoreCount(t)) => lock = t]_vars

\* C15: once a notify has returned true, whatever handlers and miners run
\* afterwards, coinbase has 32 + 32 + xnonce1_size + xnonce2_size bytes, its
\* bytes from offset 64 are the session's xnonce1, and the xnonce2 view
\* starts at offset 64 + xnonce1_size and ends inside coinbase.
CoinbaseLayout ==
    committed.job_id # NULL =>
        /\ job.coinbase_size = 32 + 32 + session.xnonce1_size + session.xnonce2_size
        /\ DOMAIN job.coinbase = 0..(job.coinbase_size - 1)
        /\ \A i \in 0..(session.xnonce1_size - 1) :
              job.coinbase[64 + i] = session.xnonce1[i]
        /\ job.xnonce2 = 64 + session.xnonce1_size
        /\ job.xnonce2 + session.xnonce2_size <= job.coinbase_size

\* C15: a notify with the installed job_id has stored the coinbase again
\* after a miner advanced xnonce2
CoinbaseLayoutWitness ==
    /\ committed.job_id # NULL
    /\ rpc = "n_jobid"
    /\ job.job_id = Params(cur).job_id
    /\ job.coinbase[job.xnonce2] > 0
    /\ session.xnonce1_size = 8

\* C16: the steps of a set_target that returns true (the copy to
\* job.extra, then the store to next_diff) leave diff, job_id, prevhash,
\* coinbase, nbits, ntime, solution and clean of the job, and shares_count,
\* as they were.
SetTargetFrame ==
    [][((rpc = "idle" /\ rpc' = "st_lock") \/ (rpc = "st_lock" /\ rpc' = "returned")) =>
          /\ job'.diff = job.diff
          /\ job'.job_id = job.job_id
          /\ job'.prevhash = job.prevhash
          /\ job'.coinbase = job.coinbase
          /\ job'.nbits = job.nbits
          /\ job'.ntime = job.ntime
          /\ job'.solution = job.solution
          /\ job'.clean = job.clean
          /\ shares_count' = shares_count]_vars

\* C16: a set_target has returned true with a job installed: job.extra and
\* next_diff are the new target's, job.diff is still the installed job's
SetTargetFrameWitness ==
    /\ rpc = "returned" /\ cur.h = "set_target" /\ ret
    /\ job.job_id # NULL
    /\ job.extra = TargetBe(Params(cur).target_hex)
    /\ next_diff = StagedDiff(Params(cur).target_hex)
    /\ DiffPositive(job.diff)
    /\ ~DiffEq(next_diff, job.diff)

\* the hex digit at position p (from 0) of the lowercase hex of buf
HexDigitAt(buf, p) == IF p % 2 = 0 THEN buf[p \div 2] \div 16 ELSE buf[p \div 2] % 16

\* C17: the solution string of a submission has 2694 hex characters; those
\* at positions 22..149 are the hex of work.solution[8..72), every other
\* one is the character at its position of the hex of work.extra[0..1347).
SolutionStringLayout ==
    fpc = "done" =>
        /\ Len(fline.solhex) = 2694
        /\ \A p \in 0..2693 :
              fline.solhex[p + 1] =
                 IF p >= 22 /\ p <= 149
                 THEN HexDigitAt([i \in 0..63 |-> Work(fwork).solution[8 + i]], p - 22)
                 ELSE HexDigitAt(Work(fwork).extra, p)

\* C17: a line was formatted for a work whose solution bytes (0xee) and
\* extra bytes (0xcc) differ
SolutionStringLayoutWitness ==
    /\ fpc = "done"
    /\ fwork = 1
    /\ fline.solhex[22] = 12 /\ fline.solhex[23] = 14
    /\ fline.solhex[150] = 14 /\ fline.solhex[151] = 12

\* C18: for every positive difficulty given, diff_to_target_equi stores to
\* word indices of at most 7 and leaves the memory after the 32 bytes of
\* the target as it was.
TargetWritesInside ==
    [][MathDiffToTarget =>
          LET s == ScaleDiff(6, mdiff)
          IN  /\ ~(TargetQuotient(s.diff) = <<>> /\ s.k = 6) =>
                    StoreIndices(s.k)[1] <= 7 /\ StoreIndices(s.k)[2] <= 7
              /\ \A i \in 32..35 : mmem'[i] = mmem[i]]_vars

\* C19: whether or not calls of equi_stratum_submit overlap, no two lines
\* delivered carry the same id, and once every call has returned
\* shares_count has advanced by the number of lines delivered.
OverlappingSubmitsCount ==
    /\ \A i, j \in DOMAIN wire : i # j => wire[i].id # wire[j].id
    /\ (\A t \in Submitters : sub[t].pc = "idle") =>
          shares_count = startShares + Len(wire)

\* C20: when a notify returns true after a set_target has returned true
\* (job.extra holds the target it was given), job.diff is strictly positive.
JobDiffPositive ==
    (rpc = "returned" /\ cur.h = "notify" /\ ret /\ job.extra # Zeros(32))
        => DiffPositive(job.diff)

====
